---- MODULE Spec2Model ----
(***************************************************************************)
(* Model of the users CRUD service of src/src/main.rs: a sequential accept *)
(* loop that reads one request per connection, dispatches it by prefix,    *)
(* issues at most one SQL statement over a fresh connection and writes one *)
(* response.  Request and response texts are sequences of characters; a    *)
(* character is a one-character string, or a named atom for the control    *)
(* characters TLA+ strings cannot spell.                                   *)
(***************************************************************************)
EXTENDS Integers, Sequences, FiniteSets, TLC

(***************************************************************************)
(* Bounds of the model.                                                    *)
(***************************************************************************)
\* number of connections the accept loop takes before the model stops it
MaxConns == 3

\* length of the longest text get_id and get_user_request_body are applied to
\* on their own
MaxText == 6

(***************************************************************************)
(* Characters.                                                             *)
(***************************************************************************)
\* U+0008 and U+0001, which a TLA+ string literal cannot contain
BS == "<BS>"
SOH == "<SOH>"

Digits == <<"0", "1", "2", "3", "4", "5", "6", "7", "8", "9">>

IsDigit(c) == \E k \in 1..10 : Digits[k] = c

DigitVal(c) == (CHOOSE k \in 1..10 : Digits[k] = c) - 1

\* char::is_whitespace on the characters of the model
IsWhitespace(c) == c \in {" ", "\t", "\n", "\r", "\f"}

\* the whitespace serde_json skips between tokens
IsJsonWs(c) == c \in {" ", "\t", "\n", "\r"}

\* characters below U+0020, which JSON forbids unescaped inside a string
IsControl(c) == c \in {"\t", "\n", "\r", "\f", BS, SOH}

I32_MAX == 2147483647
I32_MIN == (-2147483647) - 1

(***************************************************************************)
(* str helpers used by the handlers.                                       *)
(***************************************************************************)
\* str::starts_with
StartsWith(s, p) == Len(s) >= Len(p) /\ SubSeq(s, 1, Len(p)) = p

\* position of the first occurrence of pat in s at or after i, 0 when none
RECURSIVE FindFrom(_, _, _)
FindFrom(s, pat, i) ==
    IF i + Len(pat) - 1 > Len(s) THEN 0
    ELSE IF SubSeq(s, i, i + Len(pat) - 1) = pat THEN i
    ELSE FindFrom(s, pat, i + 1)

\* str::split(pat): the pieces between the matches of pat, the matches
\* searched left to right, each search resuming after the previous match
RECURSIVE Split(_, _)
Split(s, pat) ==
    LET k == FindFrom(s, pat, 1)
    IN  IF k = 0 THEN <<s>>
        ELSE <<SubSeq(s, 1, k - 1)>> \o Split(SubSeq(s, k + Len(pat), Len(s)), pat)

\* Iterator::nth(n).unwrap_or_default(), n counted from 0
NthOrDefault(pieces, n) == IF Len(pieces) >= n + 1 THEN pieces[n + 1] ELSE <<>>

\* Iterator::last().unwrap_or_default()
LastOrDefault(pieces) == IF Len(pieces) >= 1 THEN pieces[Len(pieces)] ELSE <<>>

RECURSIVE SkipWs(_, _)
SkipWs(s, i) ==
    IF i <= Len(s) /\ IsWhitespace(s[i]) THEN SkipWs(s, i + 1) ELSE i

RECURSIVE WordEnd(_, _)
WordEnd(s, i) ==
    IF i <= Len(s) /\ ~IsWhitespace(s[i]) THEN WordEnd(s, i + 1) ELSE i

\* FirstWord as it would be if the text were cut at its first whitespace
\* character, leading whitespace not skipped
FirstWordNoSkip(s) == SubSeq(s, 1, WordEnd(s, 1) - 1)

\* str::split_whitespace().next().unwrap_or_default(): the first maximal run
\* of non-whitespace characters, leading whitespace skipped
FirstWord(s) ==
    LET b == SkipWs(s, 1)
    IN  SubSeq(s, b, WordEnd(s, b) - 1)

get_id(request) == FirstWord(NthOrDefault(Split(request, <<"/">>), 2))

\* BodyText as it would be if a request without CRLF CRLF had an empty body
BodyTextOrEmpty(request) ==
    IF FindFrom(request, <<"\r", "\n", "\r", "\n">>, 1) = 0 THEN <<>>
    ELSE LastOrDefault(Split(request, <<"\r", "\n", "\r", "\n">>))

\* the text handed to serde_json::from_str by get_user_request_body
BodyText(request) == LastOrDefault(Split(request, <<"\r", "\n", "\r", "\n">>))

(***************************************************************************)
(* str::parse::<i32>: optional sign, at least one digit, digits only,      *)
(* checked accumulation (positive numbers upwards, negative downwards).    *)
(***************************************************************************)
ParseErr == [ok |-> FALSE, val |-> 0]

RECURSIVE AccPos(_, _, _)
AccPos(ds, i, acc) ==
    IF i > Len(ds) THEN [ok |-> TRUE, val |-> acc]
    ELSE IF ~IsDigit(ds[i]) THEN ParseErr
    ELSE IF acc > I32_MAX \div 10 THEN ParseErr
    ELSE IF acc * 10 > I32_MAX - DigitVal(ds[i]) THEN ParseErr
    ELSE AccPos(ds, i + 1, acc * 10 + DigitVal(ds[i]))

RECURSIVE AccNeg(_, _, _)
AccNeg(ds, i, acc) ==
    IF i > Len(ds) THEN [ok |-> TRUE, val |-> acc]
    ELSE IF ~IsDigit(ds[i]) THEN ParseErr
    ELSE IF acc < -(I32_MAX \div 10) THEN ParseErr
    ELSE IF acc * 10 < I32_MIN + DigitVal(ds[i]) THEN ParseErr
    ELSE AccNeg(ds, i + 1, acc * 10 - DigitVal(ds[i]))

parse_i32(s) ==
    IF Len(s) = 0 THEN ParseErr
    ELSE IF s[1] = "-" THEN (IF Len(s) = 1 THEN ParseErr ELSE AccNeg(Tail(s), 1, 0))
    ELSE IF s[1] = "+" THEN (IF Len(s) = 1 THEN ParseErr ELSE AccPos(Tail(s), 1, 0))
    ELSE AccPos(s, 1, 0)

(***************************************************************************)
(* serde_json, deserialisation.  Every scanner takes the text s and a      *)
(* position i and answers a record whose ok field tells success and whose  *)
(* pos field is the position after what it consumed.                       *)
(***************************************************************************)
\* the character at position i, "" past the end
At(s, i) == IF i >= 1 /\ i <= Len(s) THEN s[i] ELSE ""

RECURSIVE SkipJsonWs(_, _)
SkipJsonWs(s, i) ==
    IF i <= Len(s) /\ IsJsonWs(s[i]) THEN SkipJsonWs(s, i + 1) ELSE i

\* the one-letter escapes of a JSON string
IsSimpleEscape(c) == c \in {"\"", "\\", "/", "b", "f", "n", "r", "t"}

Unescape(c) ==
    CASE c = "b" -> BS
      [] c = "f" -> "\f"
      [] c = "n" -> "\n"
      [] c = "r" -> "\r"
      [] c = "t" -> "\t"
      [] OTHER -> c

\* \uXXXX escapes of the code points the model can name; "" for the others,
\* which no request of the model carries
UnicodeChar(h) ==
    CASE h = <<"0", "0", "0", "1">> -> SOH
      [] h = <<"0", "0", "0", "8">> -> BS
      [] h = <<"0", "0", "4", "1">> -> "A"
      [] OTHER -> ""

StrErr == [ok |-> FALSE, pos |-> 0, val |-> <<>>]

\* the rest of a JSON string whose opening quote has been consumed
RECURSIVE StrBody(_, _, _)
StrBody(s, i, acc) ==
    IF i > Len(s) THEN StrErr
    ELSE IF s[i] = "\"" THEN [ok |-> TRUE, pos |-> i + 1, val |-> acc]
    ELSE IF s[i] = "\\" THEN
        IF IsSimpleEscape(At(s, i + 1))
        THEN StrBody(s, i + 2, Append(acc, Unescape(s[i + 1])))
        ELSE IF At(s, i + 1) = "u" /\ i + 5 <= Len(s)
                /\ UnicodeChar(SubSeq(s, i + 2, i + 5)) # ""
        THEN StrBody(s, i + 6, Append(acc, UnicodeChar(SubSeq(s, i + 2, i + 5))))
        ELSE StrErr
    ELSE IF IsControl(s[i]) THEN StrErr
    ELSE StrBody(s, i + 1, Append(acc, s[i]))

\* a JSON string starting at i
ParseString(s, i) == IF At(s, i) = "\"" THEN StrBody(s, i + 1, <<>>) ELSE StrErr

RECURSIVE DigitsEnd(_, _)
DigitsEnd(s, i) == IF IsDigit(At(s, i)) THEN DigitsEnd(s, i + 1) ELSE i

(***************************************************************************)
(* A JSON number: an optional minus, an integer part (a lone 0, or digits  *)
(* not starting with 0), an optional fraction (a dot and digits), an       *)
(* optional exponent (e or E, an optional sign, digits).  The scanners of  *)
(* its parts answer the position after the part, 0 when it is malformed.   *)
(***************************************************************************)
NumErr == [ok |-> FALSE, pos |-> 0, int |-> FALSE, neg |-> FALSE, ds |-> <<>>]

\* the integer part at b: a lone 0, or digits not starting with 0
IntEnd(s, b) ==
    IF At(s, b) = "0" THEN (IF IsDigit(At(s, b + 1)) THEN 0 ELSE b + 1)
    ELSE IF IsDigit(At(s, b)) THEN DigitsEnd(s, b)
    ELSE 0

\* the optional fraction at e
FracEnd(s, e) ==
    IF At(s, e) # "." THEN e
    ELSE IF IsDigit(At(s, e + 1)) THEN DigitsEnd(s, e + 1)
    ELSE 0

\* the digits of an exponent at d
ExpDigits(s, d) == IF IsDigit(At(s, d)) THEN DigitsEnd(s, d) ELSE 0

\* the optional exponent at x, x = 0 when the fraction was malformed
ExpEnd(s, x) ==
    IF x = 0 THEN 0
    ELSE IF At(s, x) \notin {"e", "E"} THEN x
    ELSE ExpDigits(s, IF At(s, x + 1) \in {"+", "-"} THEN x + 2 ELSE x + 1)

\* the number whose integer part is ds and ends before e, the whole ending
\* before end; int tells that it has neither fraction nor exponent
Num(neg, ds, e, end) ==
    IF end = 0 THEN NumErr
    ELSE [ok |-> TRUE, pos |-> end, int |-> (end = e), neg |-> neg, ds |-> ds]

ScanAfterInt(s, neg, b, e) ==
    IF e = 0 THEN NumErr
    ELSE Num(neg, SubSeq(s, b, e - 1), e, ExpEnd(s, FracEnd(s, e)))

ScanUnsigned(s, neg, b) == ScanAfterInt(s, neg, b, IntEnd(s, b))

\* a JSON number starting at i
ScanNumber(s, i) ==
    IF At(s, i) = "-" THEN ScanUnsigned(s, TRUE, i + 1) ELSE ScanUnsigned(s, FALSE, i)

\* the literal lit at position i
IsLiteral(s, i, lit) == i + Len(lit) - 1 <= Len(s) /\ SubSeq(s, i, i + Len(lit) - 1) = lit

LitNull == <<"n", "u", "l", "l">>
LitTrue == <<"t", "r", "u", "e">>
LitFalse == <<"f", "a", "l", "s", "e">>

(***************************************************************************)
(* serde's IgnoredAny, the value of a key User does not have: the position *)
(* after the JSON value at i, 0 when there is no well-formed value there.  *)
(***************************************************************************)
RECURSIVE SkipValue(_, _), SkipArrayRest(_, _, _), SkipObjectRest(_, _, _)
SkipValue(s, i) ==
    CASE At(s, i) = "\"" -> ParseString(s, i).pos
      [] At(s, i) = "-" \/ IsDigit(At(s, i)) -> ScanNumber(s, i).pos
      [] At(s, i) = "n" -> (IF IsLiteral(s, i, LitNull) THEN i + 4 ELSE 0)
      [] At(s, i) = "t" -> (IF IsLiteral(s, i, LitTrue) THEN i + 4 ELSE 0)
      [] At(s, i) = "f" -> (IF IsLiteral(s, i, LitFalse) THEN i + 5 ELSE 0)
      [] At(s, i) = "[" -> SkipArrayRest(s, i + 1, TRUE)
      [] At(s, i) = "{" -> SkipObjectRest(s, i + 1, TRUE)
      [] OTHER -> 0

\* after an element ending before v: a comma and more, or the closing bracket
SkipArraySep(s, k) ==
    IF At(s, k) = "," THEN SkipArrayRest(s, k + 1, FALSE)
    ELSE IF At(s, k) = "]" THEN k + 1
    ELSE 0

SkipArrayNext(s, v) == IF v = 0 THEN 0 ELSE SkipArraySep(s, SkipJsonWs(s, v))

SkipArrayElem(s, j, first) ==
    IF first /\ At(s, j) = "]" THEN j + 1 ELSE SkipArrayNext(s, SkipValue(s, j))

\* the elements of an array from i on; first tells that none has been read
SkipArrayRest(s, i, first) == SkipArrayElem(s, SkipJsonWs(s, i), first)

SkipMemberSep(s, k) ==
    IF At(s, k) = "," THEN SkipObjectRest(s, k + 1, FALSE)
    ELSE IF At(s, k) = "}" THEN k + 1
    ELSE 0

SkipMemberNext(s, v) == IF v = 0 THEN 0 ELSE SkipMemberSep(s, SkipJsonWs(s, v))

SkipMemberValue(s, c) ==
    IF At(s, c) # ":" THEN 0
    ELSE SkipMemberNext(s, SkipValue(s, SkipJsonWs(s, c + 1)))

SkipMemberColon(s, key) ==
    IF ~key.ok THEN 0 ELSE SkipMemberValue(s, SkipJsonWs(s, key.pos))

SkipMember(s, j, first) ==
    IF first /\ At(s, j) = "}" THEN j + 1 ELSE SkipMemberColon(s, ParseString(s, j))

\* the members of an object from i on; first tells that none has been read
SkipObjectRest(s, i, first) == SkipMember(s, SkipJsonWs(s, i), first)

(***************************************************************************)
(* Option<i32>: <<>> for None and <<n>> for Some(n).                       *)
(***************************************************************************)
OptErr == [ok |-> FALSE, pos |-> 0, val |-> <<>>]

OptOfI32(pos, v) ==
    IF v.ok THEN [ok |-> TRUE, pos |-> pos, val |-> <<v.val>>] ELSE OptErr

\* a scanned number as an i32: an integer within range (serde_json reads -0
\* as a float)
I32OfNum(n) ==
    IF ~n.ok \/ ~n.int THEN OptErr
    ELSE IF n.neg /\ n.ds = <<"0">> THEN OptErr
    ELSE OptOfI32(n.pos, IF n.neg THEN AccNeg(n.ds, 1, 0) ELSE AccPos(n.ds, 1, 0))

\* deserialize_option over i32: null is None, anything else must be an i32
ParseOptI32(s, i) ==
    IF At(s, i) = "n"
    THEN (IF IsLiteral(s, i, LitNull)
          THEN [ok |-> TRUE, pos |-> i + 4, val |-> <<>>] ELSE OptErr)
    ELSE I32OfNum(ScanNumber(s, i))

(***************************************************************************)
(* struct User of the source and its derived Deserialize.                  *)
(***************************************************************************)
KeyId == <<"i", "d">>
KeyName == <<"n", "a", "m", "e">>
KeyEmail == <<"e", "m", "a", "i", "l">>

\* struct User: id optional, name and email required
MkUser(id, name, email) == [id |-> id, name |-> name, email |-> email]

UserErr == [ok |-> FALSE, pos |-> 0, val |-> MkUser(<<>>, <<>>, <<>>)]

\* the field of User a key names
FieldOf(key) ==
    IF key = KeyId THEN "id"
    ELSE IF key = KeyName THEN "name"
    ELSE IF key = KeyEmail THEN "email"
    ELSE "other"

\* the object closes at p - 1: name and email must have been read, an id
\* that was not read is None
UserClose(seen, u, p) ==
    IF {"name", "email"} \subseteq seen
    THEN [ok |-> TRUE, pos |-> p, val |-> u] ELSE UserErr

\* The derived visit_map: the members of a JSON object read as the fields of
\* User from i on.  seen is the set of fields read so far and u holds their
\* values; a field read twice is an error, an unknown key is skipped.
RECURSIVE UserMembers(_, _, _, _, _)

UserSep(s, k, seen, u) ==
    IF At(s, k) = "," THEN UserMembers(s, k + 1, FALSE, seen, u)
    ELSE IF At(s, k) = "}" THEN UserClose(seen, u, k + 1)
    ELSE UserErr

\* a member's value was read (ok) and ends before ve
UserAfter(s, ok, ve, seen, u) ==
    IF ~ok THEN UserErr ELSE UserSep(s, SkipJsonWs(s, ve), seen, u)

UserGotId(s, r, seen, u) ==
    UserAfter(s, r.ok, r.pos, seen \cup {"id"}, [u EXCEPT !.id = r.val])

UserGotName(s, r, seen, u) ==
    UserAfter(s, r.ok, r.pos, seen \cup {"name"}, [u EXCEPT !.name = r.val])

UserGotEmail(s, r, seen, u) ==
    UserAfter(s, r.ok, r.pos, seen \cup {"email"}, [u EXCEPT !.email = r.val])

UserSkipped(s, v, seen, u) == UserAfter(s, v # 0, v, seen, u)

\* the value at vb of the field fld
UserValue(s, fld, vb, seen, u) ==
    CASE fld = "id" -> UserGotId(s, ParseOptI32(s, vb), seen, u)
      [] fld = "name" -> UserGotName(s, ParseString(s, vb), seen, u)
      [] fld = "email" -> UserGotEmail(s, ParseString(s, vb), seen, u)
      [] OTHER -> UserSkipped(s, SkipValue(s, vb), seen, u)

UserColon(s, fld, c, seen, u) ==
    IF At(s, c) # ":" THEN UserErr
    ELSE IF fld \in seen THEN UserErr
    ELSE UserValue(s, fld, SkipJsonWs(s, c + 1), seen, u)

UserKey(s, key, seen, u) ==
    IF ~key.ok THEN UserErr
    ELSE UserColon(s, FieldOf(key.val), SkipJsonWs(s, key.pos), seen, u)

UserMember(s, j, first, seen, u) ==
    IF first /\ At(s, j) = "}" THEN UserClose(seen, u, j + 1)
    ELSE UserKey(s, ParseString(s, j), seen, u)

UserMembers(s, i, first, seen, u) == UserMember(s, SkipJsonWs(s, i), first, seen, u)

\* The derived visit_seq: a JSON array read as the fields of User in
\* declaration order, exactly id, name, email.
\* the position of the element after the comma that follows p, 0 without one
CommaAt(s, c) == IF At(s, c) = "," THEN SkipJsonWs(s, c + 1) ELSE 0

NextElem(s, p) == CommaAt(s, SkipJsonWs(s, p))

SeqClose(s, u, e) ==
    IF At(s, e) = "]" THEN [ok |-> TRUE, pos |-> e + 1, val |-> u] ELSE UserErr

SeqGotEmail(s, id, name, em) ==
    IF ~em.ok THEN UserErr
    ELSE SeqClose(s, MkUser(id, name, em.val), SkipJsonWs(s, em.pos))

SeqEmail(s, id, name, p) ==
    IF p = 0 THEN UserErr ELSE SeqGotEmail(s, id, name, ParseString(s, p))

SeqGotName(s, id, nm) ==
    IF ~nm.ok THEN UserErr ELSE SeqEmail(s, id, nm.val, NextElem(s, nm.pos))

SeqName(s, id, p) ==
    IF p = 0 THEN UserErr ELSE SeqGotName(s, id, ParseString(s, p))

SeqGotId(s, oid) ==
    IF ~oid.ok THEN UserErr ELSE SeqName(s, oid.val, NextElem(s, oid.pos))

UserElems(s, i) == SeqGotId(s, ParseOptI32(s, SkipJsonWs(s, i)))

\* deserialize_struct: an object or an array
UserAt(s, b) ==
    IF At(s, b) = "{" THEN UserMembers(s, b + 1, TRUE, {}, MkUser(<<>>, <<>>, <<>>))
    ELSE IF At(s, b) = "[" THEN UserElems(s, b + 1)
    ELSE UserErr

\* Deserializer::end: only whitespace may follow the value
EndOfInput(s, r) ==
    IF r.ok /\ SkipJsonWs(s, r.pos) = Len(s) + 1 THEN r ELSE UserErr

\* serde_json::from_str::<User>
from_str_User(s) == EndOfInput(s, UserAt(s, SkipJsonWs(s, 1)))

get_user_request_body(request) == from_str_User(BodyText(request))

(***************************************************************************)
(* serde_json, serialisation.                                              *)
(***************************************************************************)
RECURSIVE NatToText(_)
NatToText(n) ==
    IF n < 10 THEN <<Digits[n + 1]>>
    ELSE Append(NatToText(n \div 10), Digits[(n % 10) + 1])

IntToText(n) == IF n < 0 THEN <<"-">> \o NatToText(-n) ELSE NatToText(n)

\* how serde_json writes one character of a string
EscapeChar(c) ==
    CASE c = "\"" -> <<"\\", "\"">>
      [] c = "\\" -> <<"\\", "\\">>
      [] c = "\n" -> <<"\\", "n">>
      [] c = "\r" -> <<"\\", "r">>
      [] c = "\t" -> <<"\\", "t">>
      [] c = "\f" -> <<"\\", "f">>
      [] c = BS -> <<"\\", "b">>
      [] c = SOH -> <<"\\", "u", "0", "0", "0", "1">>
      [] OTHER -> <<c>>

RECURSIVE EscapeText(_)
EscapeText(t) == IF t = <<>> THEN <<>> ELSE EscapeChar(Head(t)) \o EscapeText(Tail(t))

JsonString(t) == <<"\"">> \o EscapeText(t) \o <<"\"">>

JsonOptI32(o) == IF o = <<>> THEN LitNull ELSE IntToText(o[1])

\* serde_json::to_string(&User)
to_string_User(u) ==
    <<"{">> \o JsonString(KeyId) \o <<":">> \o JsonOptI32(u.id)
    \o <<",">> \o JsonString(KeyName) \o <<":">> \o JsonString(u.name)
    \o <<",">> \o JsonString(KeyEmail) \o <<":">> \o JsonString(u.email) \o <<"}">>

RECURSIVE JoinUsers(_)
JoinUsers(us) ==
    IF us = <<>> THEN <<>>
    ELSE IF Len(us) = 1 THEN to_string_User(us[1])
    ELSE to_string_User(us[1]) \o <<",">> \o JoinUsers(Tail(us))

\* serde_json::to_string(&Vec<User>)
to_string_Users(us) == <<"[">> \o JoinUsers(us) \o <<"]">>

(***************************************************************************)
(* Constants of the source.                                                *)
(***************************************************************************)
OK_RESPONSE == "HTTP/1.1 200 OK\r\nContent-Type: application/json\r\n\r\n"
NOT_FOUND == "HTTP/1.1 404 NOT FOUND\r\n\r\n"
INTERNAL_ERROR == "HTTP/1.1 500 INTERNAL ERROR\r\n\r\n"

\* size of the read buffer of handle_client
BUFFER_SIZE == 1024

\* the prefixes handle_client matches, in the order it tries them
POST_USERS == <<"P", "O", "S", "T", " ", "/", "u", "s", "e", "r", "s">>
GET_USERS_ID == <<"G", "E", "T", " ", "/", "u", "s", "e", "r", "s", "/">>
GET_USERS == <<"G", "E", "T", " ", "/", "u", "s", "e", "r", "s">>
PUT_USERS_ID == <<"P", "U", "T", " ", "/", "u", "s", "e", "r", "s", "/">>
DELETE_USERS_ID == <<"D", "E", "L", "E", "T", "E", " ", "/", "u", "s", "e", "r", "s", "/">>

\* the response bodies the handlers answer with
MSG_404 == <<"4", "0", "4", " ", "N", "o", "t", " ", "F", "o", "u", "n", "d">>
MSG_CREATED == <<"U", "s", "e", "r", " ", "c", "r", "e", "a", "t", "e", "d">>
MSG_INTERNAL == <<"I", "n", "t", "e", "r", "n", "a", "l", " ", "e", "r", "r", "o", "r">>
MSG_INVALID_JSON == <<"I", "n", "v", "a", "l", "i", "d", " ", "J", "S", "O", "N">>
MSG_INVALID_ID == <<"I", "n", "v", "a", "l", "i", "d", " ", "I", "D">>
MSG_NOT_FOUND == <<"U", "s", "e", "r", " ", "n", "o", "t", " ", "f", "o", "u", "n", "d">>
MSG_UPDATED == <<"U", "s", "e", "r", " ", "u", "p", "d", "a", "t", "e", "d">>
MSG_DELETED == <<"U", "s", "e", "r", " ", "d", "e", "l", "e", "t", "e", "d">>

(***************************************************************************)
(* The dispatcher of handle_client: the handler of the first prefix that   *)
(* matches.                                                                *)
(***************************************************************************)
\* Route with the two GET rules in the other order
RouteListFirst(r) ==
    IF StartsWith(r, POST_USERS) THEN "post"
    ELSE IF StartsWith(r, GET_USERS) THEN "get_all"
    ELSE IF StartsWith(r, GET_USERS_ID) THEN "get"
    ELSE IF StartsWith(r, PUT_USERS_ID) THEN "put"
    ELSE IF StartsWith(r, DELETE_USERS_ID) THEN "delete"
    ELSE "none"

Route(r) ==
    IF StartsWith(r, POST_USERS) THEN "post"
    ELSE IF StartsWith(r, GET_USERS_ID) THEN "get"
    ELSE IF StartsWith(r, GET_USERS) THEN "get_all"
    ELSE IF StartsWith(r, PUT_USERS_ID) THEN "put"
    ELSE IF StartsWith(r, DELETE_USERS_ID) THEN "delete"
    ELSE "none"

Resp(status, content) == [status |-> status, content |-> content]
NoResponse == Resp("", <<>>)

\* what a handler holds when it turns to the store: the handler, the id it
\* parsed from the path and the User it parsed from the body
Call(kind, id, user) == [kind |-> kind, id |-> id, user |-> user]
NoUser == MkUser(<<>>, <<>>, <<>>)
NoCall == Call("none", 0, NoUser)

\* The part of a handler that runs before Client::connect is an early answer
\* returned without touching the store, or the call the handler goes on with.
Early(kind, status, msg) ==
    [call |-> Call(kind, 0, NoUser), store |-> FALSE, resp |-> Resp(status, msg)]

Go(c) == [call |-> c, store |-> TRUE, resp |-> NoResponse]

\* PreparePost that goes on with the default User when the body does not parse
PreparePostLenient(r) == Go(Call("post", 0, get_user_request_body(r).val))

\* handle_post_request up to Client::connect
PreparePost(r) ==
    LET body == get_user_request_body(r)
    IN  IF body.ok THEN Go(Call("post", 0, body.val))
        ELSE Early("post", INTERNAL_ERROR, MSG_INVALID_JSON)

\* handle_get_request up to Client::connect
PrepareGet(r) ==
    LET id == parse_i32(get_id(r))
    IN  IF id.ok THEN Go(Call("get", id.val, NoUser))
        ELSE Early("get", NOT_FOUND, MSG_INVALID_ID)

\* handle_get_all_request up to Client::connect
PrepareGetAll(r) == Go(Call("get_all", 0, NoUser))

\* PreparePut with the two checks in the other order: the body first
PreparePutBodyFirst(r) ==
    LET id   == parse_i32(get_id(r))
        body == get_user_request_body(r)
    IN  IF ~body.ok THEN Early("put", INTERNAL_ERROR, MSG_INVALID_JSON)
        ELSE IF ~id.ok THEN Early("put", NOT_FOUND, MSG_INVALID_ID)
        ELSE Go(Call("put", id.val, body.val))

\* handle_put_request up to Client::connect: the id first, then the body
PreparePut(r) ==
    LET id   == parse_i32(get_id(r))
        body == get_user_request_body(r)
    IN  IF ~id.ok THEN Early("put", NOT_FOUND, MSG_INVALID_ID)
        ELSE IF ~body.ok THEN Early("put", INTERNAL_ERROR, MSG_INVALID_JSON)
        ELSE Go(Call("put", id.val, body.val))

\* PrepareDelete that takes 0 for an id that does not parse
PrepareDeleteUnchecked(r) == Go(Call("delete", parse_i32(get_id(r)).val, NoUser))

\* handle_delete_request up to Client::connect
PrepareDelete(r) ==
    LET id == parse_i32(get_id(r))
    IN  IF id.ok THEN Go(Call("delete", id.val, NoUser))
        ELSE Early("delete", NOT_FOUND, MSG_INVALID_ID)

\* the match of handle_client
Prepare(r) ==
    LET kind == Route(r)
    IN  CASE kind = "post" -> PreparePost(r)
          [] kind = "get" -> PrepareGet(r)
          [] kind = "get_all" -> PrepareGetAll(r)
          [] kind = "put" -> PreparePut(r)
          [] kind = "delete" -> PrepareDelete(r)
          [] OTHER -> Early("none", NOT_FOUND, MSG_404)

\* the answer of every handler whose Client::connect failed
ConnectFailed == Resp(INTERNAL_ERROR, MSG_INTERNAL)

(***************************************************************************)
(* The users table: a set of rows; the SERIAL column draws its values from *)
(* a sequence whose last value is seq.                                     *)
(***************************************************************************)
Row(id, name, email) == [id |-> id, name |-> name, email |-> email]

RowsWithId(rows, id) == {w \in rows : w.id = id}

\* Orders as if the handler used query_opt: at most one row comes back
OrdersFirstRow(rows) == IF rows = {} THEN {<<>>} ELSE {<<w>> : w \in rows}

\* the orders in which a SELECT without ORDER BY may yield the rows
Orders(rows) ==
    {o \in [1..Cardinality(rows) -> rows] :
        \A i, j \in 1..Cardinality(rows) : o[i] = o[j] => i = j}

\* the User built from a result row (row.get(0), row.get(1), row.get(2))
UserOfRow(w) == MkUser(<<w.id>>, w.name, w.email)

\* InsertRows with the two parameters bound in the wrong order
InsertRowsSwapped(rows, last, name, email) == rows \cup {Row(last + 1, email, name)}

\* InsertRows as it would be if the id were the number of rows plus one
\* instead of the next value of the sequence
InsertRowsCounted(rows, last, name, email) ==
    rows \cup {Row(Cardinality(rows) + 1, name, email)}

\* INSERT INTO users (name, email) VALUES ($1, $2): the id is the next value
\* of the sequence; the primary key rejects an id that is already there
InsertOk(rows, last) == last < I32_MAX /\ RowsWithId(rows, last + 1) = {}
InsertRows(rows, last, name, email) == rows \cup {Row(last + 1, name, email)}

\* UpdateRows that leaves the email column out of the SET list
UpdateRowsNameOnly(rows, id, name, email) ==
    {IF w.id = id THEN Row(w.id, name, w.email) ELSE w : w \in rows}

\* DeleteRows without its WHERE clause
DeleteRowsAll(rows, id) == {}

\* UpdateRows without its WHERE clause
UpdateRowsAll(rows, id, name, email) == {Row(w.id, name, email) : w \in rows}

\* UPDATE users SET name = $1, email = $2 WHERE id = $3
UpdateRows(rows, id, name, email) ==
    {IF w.id = id THEN Row(w.id, name, email) ELSE w : w \in rows}

\* DELETE FROM users WHERE id = $1
DeleteRows(rows, id) == {w \in rows : w.id # id}

\* rows affected by a statement with WHERE id = $n
Affected(rows, id) == Cardinality(RowsWithId(rows, id))

(***************************************************************************)
(* The match each handler makes on the result of its statement; ok tells   *)
(* whether the statement returned Ok.                                      *)
(***************************************************************************)
PostResult(ok) ==
    IF ok THEN Resp(OK_RESPONSE, MSG_CREATED) ELSE Resp(INTERNAL_ERROR, MSG_INTERNAL)

\* found is the set of rows query_opt matched
GetResult(ok, found) ==
    IF ~ok THEN {Resp(INTERNAL_ERROR, MSG_INTERNAL)}
    ELSE IF found = {} THEN {Resp(NOT_FOUND, MSG_NOT_FOUND)}
    ELSE {Resp(OK_RESPONSE, to_string_User(UserOfRow(w))) : w \in found}

\* GetAllResult that reports a failed query like the other handlers do
GetAllResultPropagate(ok, o) ==
    IF ok THEN Resp(OK_RESPONSE, to_string_Users([i \in 1..Len(o) |-> UserOfRow(o[i])]))
    ELSE Resp(INTERNAL_ERROR, MSG_INTERNAL)

\* o is the sequence of rows the query yielded; unwrap_or_default makes a
\* failed query an empty Vec
GetAllResult(ok, o) ==
    LET rows == IF ok THEN o ELSE <<>>
    IN  Resp(OK_RESPONSE, to_string_Users([i \in 1..Len(rows) |-> UserOfRow(rows[i])]))

\* PutResult that takes a failed statement for one that matched no row
PutResultErrorAsNotFound(ok, affected) ==
    IF ok /\ affected > 0 THEN Resp(OK_RESPONSE, MSG_UPDATED)
    ELSE Resp(NOT_FOUND, MSG_NOT_FOUND)

PutResult(ok, affected) ==
    IF ~ok THEN Resp(INTERNAL_ERROR, MSG_INTERNAL)
    ELSE IF affected > 0 THEN Resp(OK_RESPONSE, MSG_UPDATED)
    ELSE Resp(NOT_FOUND, MSG_NOT_FOUND)

DeleteResult(ok, affected) ==
    IF ~ok THEN Resp(INTERNAL_ERROR, MSG_INTERNAL)
    ELSE IF affected > 0 THEN Resp(OK_RESPONSE, MSG_DELETED)
    ELSE Resp(NOT_FOUND, MSG_NOT_FOUND)

(***************************************************************************)
(* The requests clients send.  A request is its text together with the     *)
(* User value the client encoded into its body (sent, <<>> when the body   *)
(* encodes none).                                                          *)
(***************************************************************************)
HTTP_TAIL == <<" ", "H", "T", "T", "P", "/", "1", ".", "1", "\r", "\n", "\r", "\n">>
HTTP_HEADERS ==
    <<" ", "H", "T", "T", "P", "/", "1", ".", "1", "\r", "\n",
      "H", "o", "s", "t", ":", " ", "x", "\r", "\n", "\r", "\n">>

PayloadA == MkUser(<<>>, <<"A">>, <<"a", "@", "x">>)
PayloadB == MkUser(<<>>, <<"\"", "\\", "\r", "\n", "\r", "\n">>, <<"/", SOH, " ">>)
Payloads == {PayloadA, PayloadB}

\* two ways a client writes a User: compact, and spaced with the keys in
\* another order and an id of its own
EncodeCompact(u) ==
    <<"{">> \o JsonString(KeyName) \o <<":">> \o JsonString(u.name)
    \o <<",">> \o JsonString(KeyEmail) \o <<":">> \o JsonString(u.email) \o <<"}">>

EncodeSpaced(u) ==
    <<"{", " ">> \o JsonString(KeyEmail) \o <<" ", ":", " ">> \o JsonString(u.email)
    \o <<",", " ">> \o JsonString(KeyId) \o <<":", "7", ",", "\n">>
    \o JsonString(KeyName) \o <<":">> \o JsonString(u.name) \o <<" ", "}", "\n">>

GoodBodies ==
    {[text |-> EncodeCompact(u), sent |-> <<u>>] : u \in Payloads}
    \cup {[text |-> EncodeSpaced(PayloadB), sent |-> <<PayloadB>>]}

\* bodies that are not a User: empty, a field missing, a field of the wrong
\* type, an object cut short
BadBodies ==
    {[text |-> t, sent |-> <<>>] : t \in {
        <<>>,
        <<"{", "\"", "n", "a", "m", "e", "\"", ":", "\"", "A", "\"", "}">>,
        <<"{", "\"", "n", "a", "m", "e", "\"", ":", "1", ",",
          "\"", "e", "m", "a", "i", "l", "\"", ":", "\"", "e", "\"", "}">>,
        <<"{", "\"", "n", "a", "m", "e", "\"", ":", "\"", "A", "\"", ",",
          "\"", "e", "m", "a", "i", "l", "\"", ":", "\"", "e", "\"">> }}

\* id segments that parse as an i32 (the third one after a blank)
GoodIds == {<<"1">>, <<"2">>, <<" ", "3">>}

\* id segments that do not: letters, nothing, 2^31, a digit followed by a
\* letter
BadIds ==
    {<<"a", "b", "c">>, <<>>,
     <<"2", "1", "4", "7", "4", "8", "3", "6", "4", "8">>, <<"1", "x">>}

Req(text, sent) == [text |-> text, sent |-> sent]

PostRequests ==
    {Req(POST_USERS \o HTTP_TAIL \o b.text, b.sent) : b \in GoodBodies \cup BadBodies}
    \cup {Req(POST_USERS \o <<"/", "9">> \o HTTP_HEADERS \o EncodeCompact(PayloadA), <<PayloadA>>),
          Req(POST_USERS \o <<" ">> \o EncodeCompact(PayloadA), <<>>)}

GetRequests ==
    {Req(GET_USERS_ID \o i \o HTTP_TAIL, <<>>) : i \in GoodIds \cup BadIds}

GetAllRequests ==
    {Req(GET_USERS \o HTTP_TAIL, <<>>), Req(GET_USERS, <<>>),
     Req(GET_USERS \o <<"?", "x", "=", "/", "a", "/", "1">> \o HTTP_TAIL, <<>>)}

PutRequests ==
    {Req(PUT_USERS_ID \o i \o HTTP_TAIL \o b.text, b.sent) :
        i \in {<<"1">>, <<"2">>}, b \in GoodBodies}
    \cup {Req(PUT_USERS_ID \o <<"1">> \o HTTP_TAIL \o b.text, <<>>) : b \in BadBodies}
    \cup {Req(PUT_USERS_ID \o i \o HTTP_TAIL \o b.text, <<>>) :
            i \in {<<"a", "b", "c">>, <<>>},
            b \in {[text |-> EncodeCompact(PayloadA)], [text |-> <<>>]}}

DeleteRequests ==
    {Req(DELETE_USERS_ID \o i \o HTTP_TAIL, <<>>) : i \in GoodIds \cup BadIds}

\* requests no prefix matches
OtherRequests ==
    {Req(t, <<>>) : t \in {
        <<"P", "A", "T", "C", "H", " ", "/", "u", "s", "e", "r", "s", "/", "1">> \o HTTP_TAIL,
        <<"g", "e", "t", " ", "/", "u", "s", "e", "r", "s">> \o HTTP_TAIL,
        <<"G", "E", "T", " ", "/">> \o HTTP_TAIL,
        <<" ">> \o POST_USERS \o HTTP_TAIL \o EncodeCompact(PayloadA),
        <<"P", "U", "T", " ", "/", "u", "s", "e", "r", "s">> \o HTTP_TAIL,
        <<"x">> }}

Requests ==
    PostRequests \cup GetRequests \cup GetAllRequests \cup PutRequests
    \cup DeleteRequests \cup OtherRequests

\* what one read into the buffer leaves in request: at most BUFFER_SIZE
\* characters of what the client sent
Received(text) == SubSeq(text, 1, IF Len(text) > BUFFER_SIZE THEN BUFFER_SIZE ELSE Len(text))

(***************************************************************************)
(* The store as main may find it: no users table yet, an empty table, an   *)
(* empty table whose sequence has been used, a table with one row.         *)
(***************************************************************************)
Store(exists, rows, last) == [exists |-> exists, rows |-> rows, last |-> last]

InitStores ==
    {Store(FALSE, {}, 0), Store(TRUE, {}, 0), Store(TRUE, {}, 1),
     Store(TRUE, {Row(1, PayloadB.name, PayloadA.email)}, 1)}

(***************************************************************************)
(* State.                                                                  *)
(***************************************************************************)
VARIABLES
    pc,        \* where main / handle_client stands
    env,       \* whether DATABASE_URL is set in the environment
    store,     \* the database: table present, rows, last value of the sequence
    listening, \* whether the listener is bound
    conns,     \* connections accepted so far
    request,   \* handle_client: the request text read from the stream
    call,      \* the handler chosen and what it parsed from the request
    response,  \* the (status_line, content) pair the handler returned
    diag,      \* the last line written to stderr
    events,    \* I/O calls made for the current connection, in order
    schemaRuns, \* times set_database issued its CREATE TABLE
    sent,      \* history: the User the client encoded in the current request
    assigned,  \* history: the id the store gave the row of the current insert
    before,    \* history: the rows when the current request was read
    prev,      \* history: the previous request when it changed the table
    hist       \* history: whether the table was empty when main started, and the
               \* rows inserted and deleted since

vars == <<pc, env, store, listening, conns, request, call, response, diag,
          events, schemaRuns, sent, assigned, before, prev, hist>>

Prev(kind, id, payload) == [kind |-> kind, id |-> id, sent |-> payload]
NoPrev == Prev("none", 0, <<>>)

Init ==
    /\ pc = "start"
    /\ env \in BOOLEAN
    /\ store \in InitStores
    /\ listening = FALSE
    /\ conns = 0
    /\ request = <<>>
    /\ call = NoCall
    /\ response = NoResponse
    /\ diag = ""
    /\ events = <<>>
    /\ schemaRuns = 0
    /\ sent = <<>>
    /\ assigned = 0
    /\ before = {}
    /\ prev = NoPrev
    /\ hist = [empty |-> store.rows = {}, creates |-> 0, deletes |-> 0]

(***************************************************************************)
(* main, before the loop.                                                  *)
(***************************************************************************)
\* env::var("DATABASE_URL").expect(..): panics when the variable is absent
ReadEnv ==
    /\ pc = "start"
    /\ pc' = IF env THEN "set_database" ELSE "panicked"
    /\ UNCHANGED <<env, store, listening, conns, request, call, response, diag,
                   events, schemaRuns, sent, assigned, before, prev, hist>>

\* SetDatabase as it would be if main dropped the result of set_database
\* instead of returning its error
SetDatabaseIgnored ==
    /\ pc = "set_database"
    /\ \E outcome \in {"ok", "connect_error", "statement_error"} :
         /\ pc' = "bind"
         /\ store' = IF outcome = "ok" THEN [store EXCEPT !.exists = TRUE] ELSE store
         /\ schemaRuns' = IF outcome = "connect_error" THEN schemaRuns ELSE schemaRuns + 1
    /\ UNCHANGED <<env, listening, conns, request, call, response, diag,
                   events, sent, assigned, before, prev, hist>>

\* set_database(&db_url)?: connect, CREATE TABLE IF NOT EXISTS; an error of
\* either makes main return it
SetDatabase ==
    /\ pc = "set_database"
    /\ \E outcome \in {"ok", "connect_error", "statement_error"} :
         /\ pc' = IF outcome = "ok" THEN "bind" ELSE "exited"
         /\ store' = IF outcome = "ok" THEN [store EXCEPT !.exists = TRUE] ELSE store
         /\ schemaRuns' = IF outcome = "connect_error" THEN schemaRuns ELSE schemaRuns + 1
    /\ UNCHANGED <<env, listening, conns, request, call, response, diag,
                   events, sent, assigned, before, prev, hist>>

\* TcpListener::bind(..).unwrap()
Bind ==
    /\ pc = "bind"
    /\ \E ok \in BOOLEAN :
         /\ pc' = IF ok THEN "accept" ELSE "panicked"
         /\ listening' = ok
    /\ UNCHANGED <<env, store, conns, request, call, response, diag,
                   events, schemaRuns, sent, assigned, before, prev, hist>>

(***************************************************************************)
(* The loop of main and handle_client.                                     *)
(***************************************************************************)
\* Accept as it would be if handle_client ran on a thread of its own, so
\* that the loop took the next connection while a response is still to be
\* written
AcceptEarly ==
    /\ pc \in {"accept", "write"}
    /\ conns < MaxConns
    /\ pc' = "read"
    /\ conns' = conns + 1
    /\ request' = <<>>
    /\ call' = NoCall
    /\ response' = NoResponse
    /\ events' = <<>>
    /\ sent' = <<>>
    /\ assigned' = 0
    /\ before' = store.rows
    /\ UNCHANGED <<env, store, listening, diag, schemaRuns, prev, hist>>

\* listener.incoming() yields Ok(stream): handle_client starts with fresh
\* locals
Accept ==
    /\ pc = "accept"
    /\ conns < MaxConns
    /\ pc' = "read"
    /\ conns' = conns + 1
    /\ request' = <<>>
    /\ call' = NoCall
    /\ response' = NoResponse
    /\ events' = <<>>
    /\ sent' = <<>>
    /\ assigned' = 0
    /\ before' = store.rows
    /\ UNCHANGED <<env, store, listening, diag, schemaRuns, prev, hist>>

\* listener.incoming() yields Err(e): logged, the loop goes on
AcceptError ==
    /\ pc = "accept"
    /\ conns < MaxConns
    /\ diag' = "Unable to accept connection"
    /\ UNCHANGED <<pc, env, store, listening, conns, request, call, response,
                   events, schemaRuns, sent, assigned, before, prev, hist>>

\* stream.read(&mut buffer) is Ok(size) with size > 0
ReadRequest ==
    /\ pc = "read"
    /\ \E r \in Requests :
         /\ request' = Received(r.text)
         /\ sent' = IF Received(r.text) = r.text THEN r.sent ELSE <<>>
    /\ events' = Append(events, "read:ok")
    /\ pc' = "dispatch"
    /\ UNCHANGED <<env, store, listening, conns, call, response, diag,
                   schemaRuns, assigned, before, prev, hist>>

\* stream.read is Ok(0)
ReadEmpty ==
    /\ pc = "read"
    /\ events' = Append(events, "read:empty")
    /\ diag' = "Received empty request"
    /\ pc' = "accept"
    /\ UNCHANGED <<env, store, listening, conns, request, call, response,
                   schemaRuns, sent, assigned, before, prev, hist>>

\* ReadError as it would be if a failed read were answered like a failed
\* connection to the database
ReadErrorAnswered ==
    /\ pc = "read"
    /\ events' = Append(events, "read:err")
    /\ diag' = "Unable to read stream"
    /\ response' = Resp(INTERNAL_ERROR, MSG_INTERNAL)
    /\ pc' = "write"
    /\ UNCHANGED <<env, store, listening, conns, request, call,
                   schemaRuns, sent, assigned, before, prev, hist>>

\* stream.read is Err(e)
ReadError ==
    /\ pc = "read"
    /\ events' = Append(events, "read:err")
    /\ diag' = "Unable to read stream"
    /\ pc' = "accept"
    /\ UNCHANGED <<env, store, listening, conns, request, call, response,
                   schemaRuns, sent, assigned, before, prev, hist>>

\* the match of handle_client and the handler up to its Client::connect
Dispatch ==
    /\ pc = "dispatch"
    /\ LET p == Prepare(request)
       IN  /\ call' = p.call
           /\ response' = p.resp
           /\ pc' = IF p.store THEN "connect" ELSE "write"
    /\ UNCHANGED <<env, store, listening, conns, request, diag, events,
                   schemaRuns, sent, assigned, before, prev, hist>>

\* Connect that tries again when the connection fails
ConnectRetry ==
    /\ pc = "connect"
    /\ \E ok \in BOOLEAN :
         /\ events' = Append(events, IF ok THEN "connect:ok" ELSE "connect:err")
         /\ pc' = IF ok THEN "execute" ELSE "connect"
    /\ UNCHANGED <<env, store, listening, conns, request, call, response, diag,
                   schemaRuns, sent, assigned, before, prev, hist>>

\* Client::connect(db_url, NoTls) of the handler
Connect ==
    /\ pc = "connect"
    /\ \E ok \in BOOLEAN :
         /\ events' = Append(events, IF ok THEN "connect:ok" ELSE "connect:err")
         /\ pc' = IF ok THEN "execute" ELSE "write"
         /\ response' = IF ok THEN response ELSE ConnectFailed
    /\ UNCHANGED <<env, store, listening, conns, request, call, diag,
                   schemaRuns, sent, assigned, before, prev, hist>>

\* handle_post_request: client.execute(INSERT ..) and the match on its result.
\* A failed INSERT may or may not have drawn a value from the sequence.
ExecInsert ==
    /\ pc = "execute" /\ call.kind = "post"
    /\ \/ /\ InsertOk(store.rows, store.last)
          /\ store' = [store EXCEPT
                         !.rows = InsertRows(store.rows, store.last, call.user.name, call.user.email),
                         !.last = store.last + 1]
          /\ assigned' = store.last + 1
          /\ hist' = [hist EXCEPT !.creates = hist.creates + 1]
          /\ events' = Append(events, "execute:ok")
          /\ response' = PostResult(TRUE)
       \/ /\ \E used \in {0, 1} :
               /\ store.last + used <= I32_MAX
               /\ store' = [store EXCEPT !.last = store.last + used]
          /\ UNCHANGED <<assigned, hist>>
          /\ events' = Append(events, "execute:err")
          /\ response' = PostResult(FALSE)
    /\ pc' = "write"
    /\ UNCHANGED <<env, listening, conns, request, call, diag, schemaRuns,
                   sent, before, prev>>

\* handle_get_request: client.query_opt(SELECT .. WHERE id = $1) and the match
ExecSelectOne ==
    /\ pc = "execute" /\ call.kind = "get"
    /\ \/ /\ events' = Append(events, "execute:ok")
          /\ response' \in GetResult(TRUE, RowsWithId(store.rows, call.id))
       \/ /\ events' = Append(events, "execute:err")
          /\ response' \in GetResult(FALSE, {})
    /\ pc' = "write"
    /\ UNCHANGED <<env, store, listening, conns, request, call, diag,
                   schemaRuns, sent, assigned, before, prev, hist>>

\* handle_get_all_request: client.query(SELECT ..).unwrap_or_default(), the
\* rows in the order the store yields them
ExecSelectAll ==
    /\ pc = "execute" /\ call.kind = "get_all"
    /\ \/ /\ events' = Append(events, "execute:ok")
          /\ \E o \in Orders(store.rows) : response' = GetAllResult(TRUE, o)
       \/ /\ events' = Append(events, "execute:err")
          /\ response' = GetAllResult(FALSE, <<>>)
    /\ pc' = "write"
    /\ UNCHANGED <<env, store, listening, conns, request, call, diag,
                   schemaRuns, sent, assigned, before, prev, hist>>

\* handle_put_request: client.execute(UPDATE ..) and the match on affected
ExecUpdate ==
    /\ pc = "execute" /\ call.kind = "put"
    /\ \/ /\ events' = Append(events, "execute:ok")
          /\ store' = [store EXCEPT
                         !.rows = UpdateRows(store.rows, call.id, call.user.name, call.user.email)]
          /\ response' = PutResult(TRUE, Affected(store.rows, call.id))
       \/ /\ events' = Append(events, "execute:err")
          /\ store' = store
          /\ response' = PutResult(FALSE, 0)
    /\ pc' = "write"
    /\ UNCHANGED <<env, listening, conns, request, call, diag, schemaRuns,
                   sent, assigned, before, prev, hist>>

\* handle_delete_request: client.execute(DELETE ..) and the match on affected
ExecDelete ==
    /\ pc = "execute" /\ call.kind = "delete"
    /\ \/ /\ events' = Append(events, "execute:ok")
          /\ store' = [store EXCEPT !.rows = DeleteRows(store.rows, call.id)]
          /\ response' = DeleteResult(TRUE, Affected(store.rows, call.id))
          /\ hist' = [hist EXCEPT !.deletes = hist.deletes + Affected(store.rows, call.id)]
       \/ /\ events' = Append(events, "execute:err")
          /\ store' = store
          /\ response' = DeleteResult(FALSE, 0)
          /\ hist' = hist
    /\ pc' = "write"
    /\ UNCHANGED <<env, listening, conns, request, call, diag, schemaRuns,
                   sent, assigned, before, prev>>

\* what the next request finds behind it: the create, update or delete that
\* was answered OK, with the id of the row it touched
Summary ==
    IF response.status = OK_RESPONSE /\ call.kind \in {"post", "put", "delete"}
    THEN Prev(call.kind, IF call.kind = "post" THEN assigned ELSE call.id, sent)
    ELSE NoPrev

\* Write as it would be if main propagated a failed write with the ? operator
WritePropagated ==
    /\ pc = "write"
    /\ \E ok \in BOOLEAN :
         /\ events' = Append(events, IF ok THEN "write:ok" ELSE "write:err")
         /\ diag' = IF ok THEN diag ELSE "Failed to write response"
         /\ pc' = IF ok THEN "accept" ELSE "exited"
    /\ prev' = Summary
    /\ UNCHANGED <<env, store, listening, conns, request, call, response,
                   schemaRuns, sent, assigned, before, hist>>

\* stream.write_all(response.as_bytes()); a failure is logged; handle_client
\* returns and the stream is dropped
Write ==
    /\ pc = "write"
    /\ \E ok \in BOOLEAN :
         /\ events' = Append(events, IF ok THEN "write:ok" ELSE "write:err")
         /\ diag' = IF ok THEN diag ELSE "Failed to write response"
    /\ prev' = Summary
    /\ pc' = "accept"
    /\ UNCHANGED <<env, store, listening, conns, request, call, response,
                   schemaRuns, sent, assigned, before, hist>>

Next ==
    \/ ReadEnv \/ SetDatabase \/ Bind
    \/ Accept \/ AcceptError
    \/ ReadRequest \/ ReadEmpty \/ ReadError
    \/ Dispatch \/ Connect
    \/ ExecInsert \/ ExecSelectOne \/ ExecSelectAll \/ ExecUpdate \/ ExecDelete
    \/ Write

Spec == Init /\ [][Next]_vars

\* every blocking call returns: listener.incoming() yields a connection
\* while one may still come, and the read, Client::connect, the statement
\* and write_all each come back with Ok or Err
Returns ==
    \/ Accept
    \/ ReadRequest \/ ReadEmpty \/ ReadError
    \/ Connect
    \/ ExecInsert \/ ExecSelectOne \/ ExecSelectAll \/ ExecUpdate \/ ExecDelete
    \/ Write

\* the calls return, and the handler's own computation (the match, get_id,
\* the parse) ends, so that the service does not stay in it for ever
LiveSpec == Spec /\ WF_vars(Returns) /\ []<>(pc # "dispatch")

(***************************************************************************)
(* get_id and the split of get_user_request_body on their own: each is     *)
(* applied to every short text over the characters it looks for, and to    *)
(* the requests of the clients; the result is kept in response.content.    *)
(***************************************************************************)
Texts(alphabet, n) == UNION {[1 .. k -> alphabet] : k \in 0 .. n}

FnInit ==
    /\ pc = "text"
    /\ request \in Texts({"\r", "\n", "a"}, MaxText)
                     \cup Texts({"/", " ", "7", "a"}, MaxText)
                     \cup {r.text : r \in Requests}
    /\ env = FALSE
    /\ store = Store(FALSE, {}, 0)
    /\ listening = FALSE
    /\ conns = 0
    /\ call = NoCall
    /\ response = NoResponse
    /\ diag = ""
    /\ events = <<>>
    /\ schemaRuns = 0
    /\ sent = <<>>
    /\ assigned = 0
    /\ before = {}
    /\ prev = NoPrev
    /\ hist = [empty |-> TRUE, creates |-> 0, deletes |-> 0]

\* request.split("\r\n\r\n").last().unwrap_or_default()
ExtractBody ==
    /\ pc = "text"
    /\ pc' = "body"
    /\ response' = Resp("", BodyText(request))
    /\ UNCHANGED <<env, store, listening, conns, request, call, diag, events,
                   schemaRuns, sent, assigned, before, prev, hist>>

\* get_id(request)
ExtractId ==
    /\ pc = "text"
    /\ pc' = "id"
    /\ response' = Resp("", get_id(request))
    /\ UNCHANGED <<env, store, listening, conns, request, call, diag, events,
                   schemaRuns, sent, assigned, before, prev, hist>>

FnNext == ExtractBody \/ ExtractId

FnSpec == FnInit /\ [][FnNext]_vars

(***************************************************************************)
(* Reading the model's state for the properties below.                     *)
(***************************************************************************)
ReadEvents == {"read:ok", "read:empty", "read:err"}
ConnectEvents == {"connect:ok", "connect:err"}
ExecuteEvents == {"execute:ok", "execute:err"}
WriteEvents == {"write:ok", "write:err"}

\* the current connection made the call e
Has(e) == \E i \in DOMAIN events : events[i] = e

\* how many calls of the kinds S the current connection made
Count(S) == Cardinality({i \in DOMAIN events : events[i] \in S})

\* the handler of the current connection has been chosen
Dispatched == pc \in {"connect", "execute", "write"} \/ (pc = "accept" /\ response # NoResponse)

\* the handler of the current connection has returned its answer
Answered == pc = "write" \/ (pc = "accept" /\ response # NoResponse)

\* the current request went untouched by the store
NoStoreCall == Count(ConnectEvents \cup ExecuteEvents) = 0

\* a client decoding content finds the User u under the id id
ReadsBack(content, id, u) ==
    from_str_User(content).ok
    /\ from_str_User(content).val = MkUser(<<id>>, u.name, u.email)

\* the number of elements of the JSON array s, -1 when s is no JSON array
RECURSIVE ArrayCount(_, _, _, _)

ArrayCountSep(s, k, n) ==
    IF At(s, k) = "," THEN ArrayCount(s, k + 1, FALSE, n)
    ELSE IF At(s, k) = "]" /\ SkipJsonWs(s, k + 1) = Len(s) + 1 THEN n
    ELSE -1

ArrayCountNext(s, v, n) ==
    IF v = 0 THEN -1 ELSE ArrayCountSep(s, SkipJsonWs(s, v), n + 1)

ArrayCountElem(s, j, first, n) ==
    IF first /\ At(s, j) = "]"
    THEN (IF SkipJsonWs(s, j + 1) = Len(s) + 1 THEN 0 ELSE -1)
    ELSE ArrayCountNext(s, SkipValue(s, j), n)

ArrayCount(s, i, first, n) == ArrayCountElem(s, SkipJsonWs(s, i), first, n)

JsonArrayLength(s) == IF At(s, 1) = "[" THEN ArrayCount(s, 2, TRUE, 0) ELSE -1

(***************************************************************************)
(* Properties.                                                             *)
(***************************************************************************)

\* C1: when a create request was answered OK and the next request reads by
\* the id the store assigned to the created row, the read (its query having
\* returned) is answered OK with a User whose name and email are exactly the
\* name and email the client put in the create payload.
C1_CreateThenRead ==
    (/\ pc = "write"
     /\ prev.kind = "post" /\ prev.sent # <<>>
     /\ call.kind = "get" /\ call.id = prev.id
     /\ Has("execute:ok"))
    => /\ response.status = OK_RESPONSE
       /\ ReadsBack(response.content, prev.id, prev.sent[1])

\* a read of the row just created from the payload with quotes, backslashes
\* and line breaks, under an id other than the one the client wrote
C1_Witness ==
    /\ pc = "write"
    /\ prev.kind = "post" /\ prev.sent = <<PayloadB>> /\ prev.id = 2
    /\ call.kind = "get" /\ call.id = prev.id
    /\ Has("execute:ok")
    /\ response.status = OK_RESPONSE

\* C2: starting from an empty table and with no delete so far, a list-all
\* request (its query having returned) is answered OK with a JSON array of
\* exactly as many entries as creates have succeeded, none after zero creates.
C2_ListCount ==
    (/\ Answered
     /\ call.kind = "get_all" /\ Has("execute:ok")
     /\ hist.empty /\ hist.deletes = 0)
    => /\ response.status = OK_RESPONSE
       /\ JsonArrayLength(response.content) = hist.creates

\* a list of two rows after two creates
C2_Witness ==
    /\ Answered
    /\ call.kind = "get_all" /\ Has("execute:ok")
    /\ hist.empty /\ hist.deletes = 0 /\ hist.creates = 2
    /\ JsonArrayLength(response.content) = 2

\* C3: an update with a valid body (its statement having returned) on an id
\* without a row is answered not-found "User not found" and changes no row;
\* on an id with a row it is answered OK "User updated" and the row holds the
\* payload's name and email, which a read of that id next returns.
C3_Update ==
    /\ (/\ Answered
        /\ call.kind = "put" /\ Has("execute:ok") /\ sent # <<>>)
       => IF RowsWithId(before, call.id) = {}
          THEN /\ response = Resp(NOT_FOUND, MSG_NOT_FOUND)
               /\ store.rows = before
          ELSE /\ response = Resp(OK_RESPONSE, MSG_UPDATED)
               /\ RowsWithId(store.rows, call.id)
                    = {Row(call.id, sent[1].name, sent[1].email)}
    /\ (/\ pc = "write"
        /\ prev.kind = "put" /\ prev.sent # <<>>
        /\ call.kind = "get" /\ call.id = prev.id
        /\ Has("execute:ok"))
       => /\ response.status = OK_RESPONSE
          /\ ReadsBack(response.content, prev.id, prev.sent[1])

\* a read of a row right after an update gave it the name and email of
\* PayloadA, neither of which the row had when main started
C3_Witness ==
    /\ pc = "write"
    /\ prev.kind = "put" /\ prev.sent = <<PayloadA>> /\ prev.id = 1
    /\ call.kind = "get" /\ call.id = prev.id
    /\ Has("execute:ok")
    /\ hist.creates = 0
    /\ response.status = OK_RESPONSE

\* C4: a delete (its statement having returned) on an id without a row is
\* answered not-found "User not found"; on an id with a row it is answered OK
\* "User deleted" and removes that row and no other, and a read or a delete
\* of that id next is answered not-found "User not found".
C4_Delete ==
    /\ (/\ Answered
        /\ call.kind = "delete" /\ Has("execute:ok"))
       => IF RowsWithId(before, call.id) = {}
          THEN /\ response = Resp(NOT_FOUND, MSG_NOT_FOUND)
               /\ store.rows = before
          ELSE /\ response = Resp(OK_RESPONSE, MSG_DELETED)
               /\ store.rows = before \ RowsWithId(before, call.id)
    /\ (/\ pc = "write"
        /\ prev.kind = "delete"
        /\ call.kind \in {"get", "delete"} /\ call.id = prev.id
        /\ Has("execute:ok"))
       => response = Resp(NOT_FOUND, MSG_NOT_FOUND)

\* a read of an id right after its row was deleted, another row remaining
C4_Witness ==
    /\ pc = "write"
    /\ prev.kind = "delete"
    /\ call.kind = "get" /\ call.id = prev.id
    /\ Has("execute:ok")
    /\ store.rows # {}
    /\ response = Resp(NOT_FOUND, MSG_NOT_FOUND)

\* the create requests whose body is one of the bodies that are no User
BadPosts == {POST_USERS \o HTTP_TAIL \o b.text : b \in BadBodies}

\* C5: a create request whose body does not parse as a User is answered
\* internal-error "Invalid JSON", without a call to the store, and the rows
\* are those of before the request.
C5_InvalidJson ==
    (/\ Answered
     /\ call.kind = "post"
     /\ (request \in BadPosts \/ ~get_user_request_body(request).ok))
    => /\ response = Resp(INTERNAL_ERROR, MSG_INVALID_JSON)
       /\ NoStoreCall
       /\ store.rows = before

\* a create whose name is a number, refused while the table holds a row
C5_Witness ==
    /\ Answered
    /\ call.kind = "post"
    /\ At(BodyText(request), 9) = "1"
    /\ request \in BadPosts
    /\ response = Resp(INTERNAL_ERROR, MSG_INVALID_JSON)
    /\ before # {}

\* the requests by id whose id segment is one of those that are no i32
HasBadId(r) ==
    \E p \in {GET_USERS_ID, PUT_USERS_ID, DELETE_USERS_ID}, i \in BadIds :
        StartsWith(r, p \o i \o HTTP_TAIL)

\* C6: a read, update or delete request whose id segment does not parse as an
\* i32 is answered not-found "Invalid ID" without a connection to the store
\* or a statement.
C6_InvalidId ==
    (/\ Answered
     /\ call.kind \in {"get", "put", "delete"}
     /\ (HasBadId(request) \/ ~parse_i32(get_id(request)).ok))
    => /\ response = Resp(NOT_FOUND, MSG_INVALID_ID)
       /\ NoStoreCall
       /\ store.rows = before

\* a delete of id 2147483648, refused
C6_Witness ==
    /\ Answered
    /\ call.kind = "delete"
    /\ get_id(request) = <<"2", "1", "4", "7", "4", "8", "3", "6", "4", "8">>
    /\ response = Resp(NOT_FOUND, MSG_INVALID_ID)
    /\ NoStoreCall

\* the rules of the dispatcher in their order
Rules ==
    <<[prefix |-> POST_USERS, handler |-> "post"],
      [prefix |-> GET_USERS_ID, handler |-> "get"],
      [prefix |-> GET_USERS, handler |-> "get_all"],
      [prefix |-> PUT_USERS_ID, handler |-> "put"],
      [prefix |-> DELETE_USERS_ID, handler |-> "delete"]>>

\* the rules whose literal is a prefix of r
Matching(r) == {i \in DOMAIN Rules : StartsWith(r, Rules[i].prefix)}

\* C7: a request is handled by the handler of the first rule whose literal is
\* a prefix of it; a request no rule matches is answered not-found "404 Not
\* Found" without a call to the store; a request starting with "GET /users/"
\* is never handled by list-all.
C7_Dispatch ==
    Dispatched =>
      /\ Matching(request) # {}
           => \E i \in Matching(request) :
                /\ \A j \in Matching(request) : i <= j
                /\ call.kind = Rules[i].handler
      /\ Matching(request) = {}
           => /\ call.kind = "none"
              /\ response = Resp(NOT_FOUND, MSG_404)
              /\ NoStoreCall
      /\ StartsWith(request, GET_USERS_ID) => call.kind # "get_all"

\* a request both GET rules match, handled by read-by-id
C7_Witness ==
    /\ Dispatched
    /\ Cardinality(Matching(request)) = 2
    /\ call.kind = "get"

\* C8 as stated: every list-all request is answered OK with a JSON array,
\* whatever the condition of the store.
C8_AlwaysOk ==
    (Answered /\ call.kind = "get_all")
    => /\ response.status = OK_RESPONSE
       /\ JsonArrayLength(response.content) >= 0

\* C8 amended: a list-all request whose connection to the store succeeded is
\* answered OK with a JSON array, empty when the query failed or there are no
\* rows; one whose connection failed is answered internal-error "Internal
\* error".
C8_ListAllAnswers ==
    (Answered /\ call.kind = "get_all")
    => IF Has("connect:err")
       THEN response = Resp(INTERNAL_ERROR, MSG_INTERNAL)
       ELSE /\ response.status = OK_RESPONSE
            /\ JsonArrayLength(response.content) >= 0
            /\ (Has("execute:err") \/ before = {})
                 => JsonArrayLength(response.content) = 0

\* a list-all whose query failed while the table holds a row, answered OK
\* with the empty array
C8_Witness ==
    /\ Answered
    /\ call.kind = "get_all"
    /\ Has("execute:err")
    /\ before # {}
    /\ response = Resp(OK_RESPONSE, <<"[", "]">>)

\* C9: a create, read, update or delete request past its parsing whose
\* connection or statement fails is answered internal-error "Internal error";
\* the connection is tried once, the statement once if the connection
\* succeeded and not at all otherwise.
C9_StoreFailure ==
    (/\ Answered
     /\ call.kind \in {"post", "get", "put", "delete"}
     /\ (Has("connect:err") \/ Has("execute:err")))
    => /\ response = Resp(INTERNAL_ERROR, MSG_INTERNAL)
       /\ Count(ConnectEvents) = 1
       /\ Count(ExecuteEvents) = (IF Has("connect:err") THEN 0 ELSE 1)

\* an update whose statement failed
C9_Witness ==
    /\ Answered
    /\ call.kind = "put"
    /\ Has("execute:err")
    /\ response = Resp(INTERNAL_ERROR, MSG_INTERNAL)

\* the place of a call in the course of one connection
Stage(e) ==
    CASE e \in ReadEvents -> 1
      [] e \in ConnectEvents -> 2
      [] e \in ExecuteEvents -> 3
      [] OTHER -> 4

\* C10: the calls made for one connection are at most one read, one
\* connection to the store with one statement, and one write, in that order,
\* the read first.
C10_OneOfEach ==
    /\ \A i, j \in DOMAIN events : i < j => Stage(events[i]) < Stage(events[j])
    /\ events # <<>> => events[1] \in ReadEvents
    /\ Count(ExecuteEvents) > 0 => Has("connect:ok")

\* a connection with all four calls
C10_Witness == events = <<"read:ok", "connect:ok", "execute:ok", "write:ok">>

\* the current connection's read failed or returned zero bytes
ReadFailed == Has("read:empty") \/ Has("read:err")

\* C11: a connection whose read failed or returned zero bytes made no other
\* call: no handler was chosen, no response was built or written, the store
\* was neither connected to nor queried, and the users table is as it was
\* when the connection was accepted; and a step that leaves the service
\* accepting (a failed accept) changes neither the table nor anything a
\* handler or the store would have produced.
C11_Abandoned ==
    /\ [](ReadFailed =>
            /\ pc = "accept"
            /\ Len(events) = 1
            /\ call = NoCall
            /\ response = NoResponse
            /\ store.rows = before)
    /\ [][(pc = "accept" /\ pc' = "accept")
            => UNCHANGED <<store, request, call, response, events, hist>>]_vars

\* a read failed on a connection accepted while the table held a row, after
\* an earlier request had been answered
C11_Witness ==
    /\ Has("read:err")
    /\ before # {}
    /\ prev.kind # "none"
    /\ diag = "Unable to read stream"

\* the positions of main's loop and of handle_client
LoopStates == {"accept", "read", "dispatch", "connect", "execute", "write"}

\* C12: once listening, the service stays inside the connection loop (no
\* outcome of a connection ends it or stops the listening); connections are
\* counted one by one; and every run in which the service listens goes on
\* until it has taken every connection the bound leaves it and is back in
\* the accepting state for good: so every accepted connection, whatever its
\* outcome, is followed by the return to the accepting state, and from the
\* accepting state the next connection is eventually taken.
C12_LoopGoesOn ==
    /\ [](listening => pc \in LoopStates)
    /\ [][listening => listening']_vars
    /\ [][conns' \in {conns, conns + 1}]_vars
    /\ <>[](listening => (pc = "accept" /\ conns = MaxConns))

\* the service is accepting again after a connection whose response could
\* not be written, following a connection that had changed the table
C12_Witness ==
    /\ pc = "accept"
    /\ listening
    /\ Has("write:err")
    /\ diag = "Failed to write response"
    /\ conns = 2
    /\ hist.creates > 0

\* the process has ended: the panic of expect or unwrap, or main returning
\* the error of set_database
Ended == pc \in {"panicked", "exited"}

\* C13: the service is at the bind, listening or inside the connection loop
\* only when the connection-string variable is present and set_database has
\* succeeded, its CREATE TABLE IF NOT EXISTS having run exactly once; a
\* process that ended never listened and never accepted a connection, and
\* does nothing more; the schema statement runs only at the startup step;
\* and that step leaves the rows (and the id sequence) of a store that
\* already has the table as they were.
C13_Startup ==
    /\ []((pc \in {"bind"} \cup LoopStates \/ listening \/ conns > 0)
            => (env /\ store.exists /\ schemaRuns = 1))
    /\ [](Ended => (~listening /\ conns = 0 /\ events = <<>>))
    /\ [][Ended => UNCHANGED vars]_vars
    /\ [][schemaRuns' # schemaRuns => pc = "set_database"]_vars
    /\ [][pc = "set_database"
            => (store'.rows = store.rows /\ store'.last = store.last)]_vars

\* the service listens on a store whose table and row existed before the
\* startup, the row still being there
C13_Witness ==
    /\ listening
    /\ pc = "accept"
    /\ conns = 0
    /\ schemaRuns = 1
    /\ ~hist.empty
    /\ store.rows # {}

\* the ids in use in a table
Ids(rows) == {w.id : w \in rows}

\* C14: in every reachable state no two rows of the users table share an id;
\* and every step keeps the ids of the rows: it leaves the set of ids as it
\* is, or adds one row under an id that was not in use and keeps the others,
\* or removes rows and keeps the others; the statement of an update leaves
\* the set of ids as it is and every row under another id untouched, so that
\* the addressed row differs at most in name and email.
C14_IdsStable ==
    /\ [](\A v, w \in store.rows : v.id = w.id => v = w)
    /\ [][\/ Ids(store'.rows) = Ids(store.rows)
          \/ /\ store.rows \subseteq store'.rows
             /\ Cardinality(store'.rows) = Cardinality(store.rows) + 1
             /\ Cardinality(Ids(store'.rows)) = Cardinality(Ids(store.rows)) + 1
          \/ store'.rows \subseteq store.rows]_vars
    /\ [][(pc = "execute" /\ call.kind = "put")
            => /\ Ids(store'.rows) = Ids(store.rows)
               /\ Cardinality(store'.rows) = Cardinality(store.rows)
               /\ \A w \in store.rows : w.id # call.id => w \in store'.rows]_vars

\* an update answered OK has rewritten one of two rows, the client having
\* put another id in the body
C14_Witness ==
    /\ pc = "write"
    /\ call.kind = "put"
    /\ response.status = OK_RESPONSE
    /\ store.rows # before
    /\ Cardinality(store.rows) = 2
    /\ call.user.id # <<>>
    /\ call.user.id # <<call.id>>

\* the connection accepted last has been dealt with to its end: its read
\* failed or was empty, or its response went to write_all; before the first
\* connection there is none
Completed ==
    \/ conns = 0 /\ events = <<>>
    \/ /\ events # <<>>
       /\ events[Len(events)] \in {"read:empty", "read:err"} \cup WriteEvents
       /\ (Has("read:ok") => (Dispatched /\ Count(WriteEvents) = 1))
       /\ (Has("connect:ok") => Count(ExecuteEvents) = 1)

\* C15: a connection is accepted only from the accepting state and only when
\* the connection before it has been dealt with to its end (read, dispatch,
\* store call and write); the calls in progress always belong to one request
\* (at most one read, one connect, one statement and one write since the
\* last accept); and a statement reaches the store only on behalf of the
\* connection accepted last, before any other connection is accepted, so
\* statements reach the store in the order of the accepts.
C15_OneAtATime ==
    /\ [](/\ Count(ReadEvents) <= 1
          /\ Count(ConnectEvents) <= 1
          /\ Count(ExecuteEvents) <= 1
          /\ Count(WriteEvents) <= 1)
    /\ [][conns' # conns
            => (pc = "accept" /\ conns' = conns + 1 /\ Completed)]_vars
    /\ [][(listening /\ (store' # store
                          \/ Count(ExecuteEvents)' > Count(ExecuteEvents)))
            => (pc = "execute" /\ conns' = conns /\ Count(ExecuteEvents) = 0)]_vars

\* the third connection has been accepted after two requests that each
\* changed the table
C15_Witness ==
    /\ pc = "read"
    /\ conns = 3
    /\ events = <<>>
    /\ hist.creates + hist.deletes = 2

\* update requests whose id segment is no i32, with a body that is a User
\* and with a body that is none
BadIdPuts ==
    {PUT_USERS_ID \o i \o HTTP_TAIL \o b :
        i \in {<<"a", "b", "c">>, <<>>}, b \in {EncodeCompact(PayloadA), <<>>}}

\* update requests of id 1 whose body is no User
BadBodyPuts == {PUT_USERS_ID \o <<"1">> \o HTTP_TAIL \o b.text : b \in BadBodies}

\* C16: an update request whose id segment does not parse is answered
\* not-found "Invalid ID", whether or not its body is a User; one whose id
\* parses and whose body is not a User is answered internal-error "Invalid
\* JSON"; in both cases the store is neither connected to nor sent a
\* statement and the rows are those of before the request.
C16_IdBeforeBody ==
    (Answered /\ call.kind = "put")
    => /\ (request \in BadIdPuts \/ ~parse_i32(get_id(request)).ok)
            => /\ response = Resp(NOT_FOUND, MSG_INVALID_ID)
               /\ NoStoreCall
               /\ store.rows = before
       /\ (/\ parse_i32(get_id(request)).ok
           /\ (request \in BadBodyPuts \/ ~get_user_request_body(request).ok))
            => /\ response = Resp(INTERNAL_ERROR, MSG_INVALID_JSON)
               /\ NoStoreCall
               /\ store.rows = before

\* an update with the id abc and an empty body has been answered, the table
\* holding a row
C16_Witness ==
    /\ Answered
    /\ call.kind = "put"
    /\ request = PUT_USERS_ID \o <<"a", "b", "c">> \o HTTP_TAIL
    /\ ~get_user_request_body(request).ok
    /\ store.rows # {}

\* the current request is a create, update or delete that was answered OK
Success ==
    /\ Answered
    /\ call.kind \in {"post", "put", "delete"}
    /\ response.status = OK_RESPONSE

\* C17: since the connection was accepted, the users table has changed only
\* if the request is a create, update or delete answered OK: with any other
\* outcome (a read, a list, an unmatched request, a rejection, "User not
\* found", a store failure, a failed or empty read, or a request still being
\* handled) the rows are those of before; after a create answered OK the
\* rows are those of before plus exactly one; after an update or delete
\* answered OK the rows under every id but the addressed one are those of
\* before.
C17_Frame ==
    conns > 0
    => /\ ~Success => store.rows = before
       /\ (Success /\ call.kind = "post")
            => /\ before \subseteq store.rows
               /\ Cardinality(store.rows) = Cardinality(before) + 1
       /\ (Success /\ call.kind \in {"put", "delete"})
            => /\ {w \in store.rows : w.id # call.id} = {w \in before : w.id # call.id}
               /\ Cardinality(RowsWithId(before, call.id)) = 1
               /\ Cardinality(RowsWithId(store.rows, call.id))
                    = (IF call.kind = "put" THEN 1 ELSE 0)

\* an update answered OK has rewritten its row and left another row alone
C17_Witness ==
    /\ Success
    /\ call.kind = "put"
    /\ store.rows # before
    /\ \E w \in store.rows : w.id # call.id /\ w \in before

CRLFCRLF == <<"\r", "\n", "\r", "\n">>

\* the positions at which CRLF CRLF occurs in t, overlapping ones included
Occurrences(t) == {i \in 1 .. (Len(t) - 3) : SubSeq(t, i, i + 3) = CRLFCRLF}

\* the least and the greatest of a non-empty set of numbers
Least(S) == CHOOSE i \in S : \A j \in S : i <= j
Greatest(S) == CHOOSE i \in S : \A j \in S : i >= j

\* what follows the final CRLF CRLF of t; empty when t has none
AfterFinal(t) ==
    IF Occurrences(t) = {} THEN <<>>
    ELSE SubSeq(t, Greatest(Occurrences(t)) + 4, Len(t))

\* the matches a search from the left finds in t from position i on, each
\* search resuming behind the match before it
RECURSIVE MatchesFrom(_, _)
MatchesFrom(t, i) ==
    IF {k \in Occurrences(t) : k >= i} = {} THEN {}
    ELSE {Least({k \in Occurrences(t) : k >= i})}
           \cup MatchesFrom(t, Least({k \in Occurrences(t) : k >= i}) + 4)

\* C18 as stated: the text get_user_request_body parses is whatever follows
\* the final CRLF CRLF of the request, and is empty when the request has no
\* CRLF CRLF.
C18_AfterFinal ==
    pc = "body" => response.content = AfterFinal(request)

\* C18: the text get_user_request_body parses is the whole request when the
\* request has no CRLF CRLF; otherwise it is what follows the last of the
\* matches of CRLF CRLF found from the left without overlap (so that of
\* three CRLF in a row the first two are the match and the third belongs to
\* the text); it agrees with "what follows the final CRLF CRLF" whenever no
\* two occurrences of CRLF CRLF overlap.
C18_AfterLastMatch ==
    pc = "body"
    => /\ Occurrences(request) = {} => response.content = request
       /\ Occurrences(request) # {}
            => response.content
                 = SubSeq(request, Greatest(MatchesFrom(request, 1)) + 4, Len(request))
       /\ (/\ Occurrences(request) # {}
           /\ \A i, j \in Occurrences(request) : i # j => (i - j >= 4 \/ j - i >= 4))
            => response.content = AfterFinal(request)

\* the split has been applied to a text in which CRLF CRLF occurs at two
\* overlapping positions, and gave a text that starts with the third CRLF
C18_Witness ==
    /\ pc = "body"
    /\ request = <<"\r", "\n", "\r", "\n", "\r", "\n">>
    /\ response.content = <<"\r", "\n">>

\* the positions of '/' in t
Slashes(t) == {i \in 1 .. Len(t) : t[i] = "/"}

\* the third '/'-separated segment of t: what lies between the second '/'
\* and the third (or the end); empty when t has fewer than two '/'
Segment(t) ==
    IF Cardinality(Slashes(t)) < 2 THEN <<>>
    ELSE SubSeq(t,
                Least(Slashes(t) \ {Least(Slashes(t))}) + 1,
                Least({i \in Slashes(t) \cup {Len(t) + 1} :
                         i > Least(Slashes(t) \ {Least(Slashes(t))})}) - 1)

\* s cut at its first whitespace character
Truncated(s) ==
    SubSeq(s, 1, Least({i \in 1 .. Len(s) : IsWhitespace(s[i])} \cup {Len(s) + 1}) - 1)

\* s without the whitespace it starts with
Trimmed(s) ==
    SubSeq(s, Least({i \in 1 .. Len(s) : ~IsWhitespace(s[i])} \cup {Len(s) + 1}), Len(s))

\* C19 as stated: get_id returns the third '/'-separated segment cut at its
\* first whitespace character, hence empty text when the segment begins with
\* whitespace or does not exist.
C19_Truncated ==
    pc = "id" => response.content = Truncated(Segment(request))

\* C19: get_id returns the first whitespace-delimited word of the third
\* '/'-separated segment: the segment without its leading whitespace, cut at
\* the next whitespace character; the result is empty text only when there
\* is no such segment or the segment is empty or all whitespace; when the
\* segment does not begin with whitespace this is the segment cut at its
\* first whitespace character; and for a segment that begins with
\* whitespace followed by digits the result is those digits, an id that
\* parses.
C19_FirstWord ==
    pc = "id"
    => /\ response.content = Truncated(Trimmed(Segment(request)))
       /\ (response.content = <<>>)
            <=> (\A i \in 1 .. Len(Segment(request)) : IsWhitespace(Segment(request)[i]))
       /\ (Segment(request) = <<>> \/ ~IsWhitespace(Segment(request)[1]))
            => response.content = Truncated(Segment(request))
       /\ StartsWith(Segment(request), <<" ", "7">>)
            => (response.content # <<>> /\ response.content[1] = "7")
       /\ StartsWith(request, GET_USERS_ID \o <<" ", "3">> \o HTTP_TAIL)
            => parse_i32(response.content) = [ok |-> TRUE, val |-> 3]

\* get_id has been applied to the request "GET /users/ 3 HTTP/1.1" and gave
\* the id 3
C19_Witness ==
    /\ pc = "id"
    /\ request = GET_USERS_ID \o <<" ", "3">> \o HTTP_TAIL
    /\ Segment(request) = <<" ", "3", " ", "H", "T", "T", "P">>
    /\ response.content = <<"3">>

====
